---- MODULE Spec2Model ----
(***************************************************************************)
(* College Event Booking & Management System (src/app.py).                 *)
(* The reservation and approval engine: halls, events, bookings, the       *)
(* request handlers that mutate them, and the finalization of a booking.   *)
(* Every request handler is one atomic action (one request at a time).     *)
(***************************************************************************)
EXTENDS Integers, Sequences, FiniteSets, TLC

VARIABLES
    halls,          \* hall id -> [capacity, status]            (class Hall)
    events,         \* sequence of Event rows, index = Event.id (class Event)
    bookings,       \* sequence of Booking rows, index = Booking.id
    qrcode,         \* the optional qrcode module was imported  (app.py:40-43)
    have_reportlab, \* the optional reportlab module was imported (app.py:52-59)
    mail,           \* the module global `mail` is configured   (app.py:108)
    response,       \* the response of the last request
    edited,         \* history: ids of the events edit_event has written
    outbox,         \* history: the ticket e-mails attempted, in order
    accounts,       \* User rows added after the seeded ones, index + 4 = User.id
    requests        \* requests in flight when handlers run step by step

vars == <<halls, events, bookings, qrcode, have_reportlab, mail, response, edited,
          outbox, accounts, requests>>

(***************************************************************************)
(* Bounds of the model.                                                    *)
(***************************************************************************)
MaxBookings == 2    \* Booking rows book_event may insert
MaxSingle == 1      \* Booking rows when one booking's life cycle is followed
MaxCap == 1         \* capacities submitted to edit_event / create_event: 0..MaxCap
MaxFinal == 2       \* finalizations of one booking that are followed
MaxEvents == 3      \* Event rows (the seeded ones and those of create_event)
MaxTime == 3        \* timestamps are 0..MaxTime
MaxHour == 2        \* timestamps submitted when admission alone is followed: 0..MaxHour
MaxSeats == 2       \* capacities the capacity calculator is applied to: 0..MaxSeats

NULL == "NULL"      \* Python None / SQL NULL in a path column
NoLimit == -1       \* seats_available's None: no effective capacity

(***************************************************************************)
(* Users: the four accounts of the seed script, in insertion order.        *)
(***************************************************************************)
AdminId == 1
OrganizerId == 2
StudentId == 3
FacultyId == 4
Users == {AdminId, OrganizerId, StudentId, FacultyId}

\* The requesters of book_event that the model follows: one per branch of the
\* handler (a faculty requester takes the same branches as a student).
Bookers == {AdminId, OrganizerId, StudentId}

role(u) ==
    CASE u = AdminId -> "admin"
      [] u = OrganizerId -> "organizer"
      [] u = StudentId -> "student"
      [] u = FacultyId -> "faculty"

(***************************************************************************)
(* The initial database. Capacities are scaled down to one seat so that an *)
(* event sells out within the model's bounds (the seed script uses 100 to  *)
(* 200 seats).                                                             *)
(***************************************************************************)
HallIds == {1, 2}

SeedHalls == [h \in HallIds |-> [capacity |-> IF h = 1 THEN 2 ELSE 1, status |-> "free"]]

\* Event 1 is a row as create_event stores it: approved at once, with
\* requires_faculty_approval = True. Event 2 is a row as the seed script
\* stores its second event: pending, the flag left at the column default.
CreatedEvent ==
    [hall_id |-> 1, organizer_id |-> OrganizerId, capacity |-> 1,
     start_time |-> 0, end_time |-> 1, status |-> "approved",
     requires_faculty_approval |-> TRUE]

SeedPendingEvent ==
    [hall_id |-> 2, organizer_id |-> OrganizerId, capacity |-> 1,
     start_time |-> 0, end_time |-> 2, status |-> "pending",
     requires_faculty_approval |-> FALSE]

EventIds == DOMAIN events
BookingIds == DOMAIN bookings

(***************************************************************************)
(* Responses.                                                              *)
(***************************************************************************)
Resp(code, body, id) == [code |-> code, body |-> body, booking_id |-> id]


(***************************************************************************)
(* Capacity calculator.                                                    *)
(***************************************************************************)
\* a count that takes every booking that is not cancelled
seats_taken_not_cancelled(event_id) ==
    Cardinality({b \in BookingIds :
                    /\ bookings[b].event_id = event_id
                    /\ bookings[b].status # "cancelled"})

seats_taken(event_id) ==
    Cardinality({b \in BookingIds :
                    /\ bookings[b].event_id = event_id
                    /\ bookings[b].status = "confirmed"})

Max(a, b) == IF a >= b THEN a ELSE b

\* 0 stands for a capacity that is unset (None or 0): both are falsy in Python.
seats_available(e) ==
    LET event == events[e]
        event_cap == IF event.capacity > 0 THEN event.capacity ELSE NoLimit
        hall_cap == IF halls[event.hall_id].capacity > 0
                    THEN halls[event.hall_id].capacity ELSE NoLimit
        effective == IF event_cap # NoLimit THEN event_cap ELSE hall_cap
    IN  IF effective = NoLimit THEN NoLimit
        ELSE Max(0, effective - seats_taken(e))

(***************************************************************************)
(* Ticket artifact generators: what one call can return.                   *)
(***************************************************************************)
QrHandle == "ticket.png"
PdfHandle == "ticket.pdf"

\* generate_ticket_qr: None without the module or when every renderer fails.
generate_ticket_qr == IF qrcode THEN {NULL, QrHandle} ELSE {NULL}

\* generate_ticket_pdf: None without reportlab or when rendering raises.
generate_ticket_pdf == IF have_reportlab THEN {NULL, PdfHandle} ELSE {NULL}

(***************************************************************************)
(* Finalization. bk is the Booking row; qr and pdf are what the generators *)
(* return in this call. finalizations is a history field: how often the    *)
(* body ran.                                                               *)
(***************************************************************************)
FinalizeReady_organizer_only(bk) ==
    bk.organizer_approved /\ bk.status # "confirmed"

FinalizeReady(bk) ==
    bk.faculty_approved /\ bk.organizer_approved /\ bk.status # "confirmed"

\* a finalization that writes the status in both branches
finalize_booking_resets_status(bk, qr, pdf) ==
    IF FinalizeReady(bk)
    THEN [bk EXCEPT !.status = "confirmed",
                    !.qr_path = IF qrcode THEN qr ELSE @,
                    !.pdf_path = IF pdf # NULL THEN pdf ELSE @,
                    !.finalizations = @ + 1]
    ELSE [bk EXCEPT !.status = "pending"]

\* a finalization that confirms only when both artifacts were generated
finalize_booking_needs_artifacts(bk, qr, pdf) ==
    IF FinalizeReady(bk) /\ qr # NULL /\ pdf # NULL
    THEN [bk EXCEPT !.status = "confirmed",
                    !.qr_path = qr,
                    !.pdf_path = pdf,
                    !.finalizations = @ + 1]
    ELSE bk

finalize_booking_if_ready(bk, qr, pdf) ==
    IF FinalizeReady(bk)
    THEN [bk EXCEPT !.status = "confirmed",
                    !.qr_path = IF qrcode THEN qr ELSE @,
                    !.pdf_path = IF pdf # NULL THEN pdf ELSE @,
                    !.finalizations = @ + 1]
    ELSE bk

(***************************************************************************)
(* Init: users and halls of the seed script, one event created through     *)
(* create_event, the seed script's pending event, and no booking yet. The  *)
(* optional libraries are not installed and no mail server is configured.  *)
(***************************************************************************)
Init ==
    /\ halls = SeedHalls
    /\ events = <<CreatedEvent, SeedPendingEvent>>
    /\ bookings = << >>
    /\ qrcode = FALSE
    /\ have_reportlab = FALSE
    /\ mail = FALSE
    /\ response = Resp(0, "none", 0)
    /\ edited = {}
    /\ outbox = << >>
    /\ accounts = << >>
    /\ requests = << >>

\* what no request handler of the engine changes: the installation, the
\* accounts and the requests in flight
env == <<qrcode, have_reportlab, mail, accounts, requests>>

\* the ticket e-mail of the finalization of booking b, whose row is bk when
\* the finalization is called: attempted when the finalization runs and mail
\* is set up, delivered or not
send_ticket_email(b, bk) ==
    IF FinalizeReady(bk) /\ mail
    THEN \E delivered \in BOOLEAN :
            outbox' = Append(outbox, [booking_id |-> b, delivered |-> delivered])
    ELSE UNCHANGED outbox

(***************************************************************************)
(* POST /events/<event_id>/book                                            *)
(***************************************************************************)
EventOfRow(bk) == events[bk.event_id]

ActiveBookings(u, e) ==
    {b \in BookingIds : /\ bookings[b].user_id = u
                        /\ bookings[b].event_id = e
                        /\ bookings[b].status # "cancelled"}

\* .first() of the query: the row with the lowest id
FirstOf(S) == CHOOSE b \in S : \A c \in S : b <= c

\* a row that is never approved at creation
NewBooking_unapproved(u, e) ==
    [user_id |-> u, event_id |-> e, status |-> "pending",
     faculty_approved |-> FALSE, organizer_approved |-> FALSE,
     qr_path |-> NULL, pdf_path |-> NULL, finalizations |-> 0]

NewBooking(u, e) ==
    [user_id |-> u, event_id |-> e, status |-> "pending",
     faculty_approved |-> FALSE,
     organizer_approved |->
        (~events[e].requires_faculty_approval /\ role(u) \in {"organizer", "admin"}),
     qr_path |-> NULL, pdf_path |-> NULL, finalizations |-> 0]

\* the sold-out test of book_event on the value seats_available returned
sold_out_off_by_one(avail) == avail # NoLimit /\ avail < 0

\* a sold-out test that reads the no-limit value as a number
sold_out_reads_no_limit(avail) == avail <= 0

sold_out(avail) == avail # NoLimit /\ avail <= 0

\* a handler without the test of the event's status
book_event_any_status(u, e) ==
    LET avail == seats_available(e)
        existing == ActiveBookings(u, e)
    IN  /\ UNCHANGED <<halls, events, env, edited>>
        /\ IF role(u) \notin {"student", "faculty", "organizer", "admin"}
           THEN /\ response' = Resp(403, "role not allowed to book", 0)
                /\ UNCHANGED <<bookings, outbox>>
           ELSE IF sold_out(avail)
           THEN /\ response' = Resp(409, "sold_out", 0)
                /\ UNCHANGED <<bookings, outbox>>
           ELSE IF existing # {}
           THEN /\ response' = Resp(200, "already_booked", FirstOf(existing))
                /\ UNCHANGED <<bookings, outbox>>
           ELSE /\ Len(bookings) < MaxBookings
                /\ \E qr \in generate_ticket_qr, pdf \in generate_ticket_pdf :
                      bookings' = Append(bookings,
                          finalize_booking_if_ready(NewBooking(u, e), qr, pdf))
                /\ send_ticket_email(Len(bookings) + 1, NewBooking(u, e))
                /\ response' = Resp(201, "booked", Len(bookings) + 1)

book_event(u, e) ==
    LET ev == events[e]
        avail == seats_available(e)
        existing == ActiveBookings(u, e)
    IN  /\ UNCHANGED <<halls, events, env, edited>>
        /\ IF role(u) \notin {"student", "faculty", "organizer", "admin"}
           THEN /\ response' = Resp(403, "role not allowed to book", 0)
                /\ UNCHANGED <<bookings, outbox>>
           ELSE IF ev.status # "approved" /\ role(u) # "admin"
           THEN /\ response' = Resp(400, "event not open for booking", 0)
                /\ UNCHANGED <<bookings, outbox>>
           ELSE IF sold_out(avail)
           THEN /\ response' = Resp(409, "sold_out", 0)
                /\ UNCHANGED <<bookings, outbox>>
           ELSE IF existing # {}
           THEN /\ response' = Resp(200, "already_booked", FirstOf(existing))
                /\ UNCHANGED <<bookings, outbox>>
           ELSE /\ Len(bookings) < MaxBookings
                /\ \E qr \in generate_ticket_qr, pdf \in generate_ticket_pdf :
                      bookings' = Append(bookings,
                          finalize_booking_if_ready(NewBooking(u, e), qr, pdf))
                /\ send_ticket_email(Len(bookings) + 1, NewBooking(u, e))
                /\ response' = Resp(201, "booked", Len(bookings) + 1)

(***************************************************************************)
(* POST /bookings/<booking_id>/cancel                                      *)
(***************************************************************************)
\* a cancellation that is also open to every organizer
cancel_booking_by_organizer(u, b) ==
    /\ UNCHANGED <<halls, events, env, edited, outbox>>
    /\ IF bookings[b].user_id # u /\ role(u) \notin {"admin", "organizer"}
       THEN /\ response' = Resp(403, "abort", 0)
            /\ UNCHANGED bookings
       ELSE /\ bookings' = [bookings EXCEPT ![b].status = "cancelled"]
            /\ response' = Resp(302, "redirect", 0)

\* a cancellation that also withdraws the approvals
cancel_booking_resets_flags(u, b) ==
    /\ UNCHANGED <<halls, events, env, edited, outbox>>
    /\ IF bookings[b].user_id # u /\ role(u) \notin {"admin"}
       THEN /\ response' = Resp(403, "abort", 0)
            /\ UNCHANGED bookings
       ELSE /\ bookings' = [bookings EXCEPT ![b].status = "cancelled",
                                            ![b].faculty_approved = FALSE,
                                            ![b].organizer_approved = FALSE]
            /\ response' = Resp(302, "redirect", 0)

cancel_booking(u, b) ==
    /\ UNCHANGED <<halls, events, env, edited, outbox>>
    /\ IF bookings[b].user_id # u /\ role(u) \notin {"admin"}
       THEN /\ response' = Resp(403, "abort", 0)
            /\ UNCHANGED bookings
       ELSE /\ bookings' = [bookings EXCEPT ![b].status = "cancelled"]
            /\ response' = Resp(302, "redirect", 0)

(***************************************************************************)
(* POST /organizer/bookings/<booking_id>/approve                           *)
(***************************************************************************)
organizer_approve_booking(u, b) ==
    LET approved == [bookings[b] EXCEPT !.organizer_approved = TRUE]
    IN  /\ UNCHANGED <<halls, events, env, edited>>
        /\ IF role(u) \notin {"organizer", "admin"}
           THEN /\ response' = Resp(302, "redirect", 0)
                /\ UNCHANGED <<bookings, outbox>>
           ELSE IF role(u) # "admin" /\ u # events[bookings[b].event_id].organizer_id
           THEN /\ response' = Resp(403, "abort", 0)
                /\ UNCHANGED <<bookings, outbox>>
           ELSE /\ FinalizeReady(approved) => approved.finalizations < MaxFinal
                /\ \E qr \in generate_ticket_qr, pdf \in generate_ticket_pdf :
                      bookings' = [bookings EXCEPT
                                     ![b] = finalize_booking_if_ready(approved, qr, pdf)]
                /\ send_ticket_email(b, approved)
                /\ response' = Resp(302, "redirect", 0)

(***************************************************************************)
(* POST /faculty/bookings/<booking_id>/approve                             *)
(***************************************************************************)
\* an approval that does not look at the event's flag
faculty_approve_booking_unconditional(u, b) ==
    LET approved == [bookings[b] EXCEPT !.faculty_approved = TRUE]
    IN  /\ UNCHANGED <<halls, events, env, edited>>
        /\ IF role(u) \notin {"faculty"}
           THEN /\ response' = Resp(302, "redirect", 0)
                /\ UNCHANGED <<bookings, outbox>>
           ELSE /\ FinalizeReady(approved) => approved.finalizations < MaxFinal
                /\ \E qr \in generate_ticket_qr, pdf \in generate_ticket_pdf :
                      bookings' = [bookings EXCEPT
                                     ![b] = finalize_booking_if_ready(approved, qr, pdf)]
                /\ send_ticket_email(b, approved)
                /\ response' = Resp(302, "redirect", 0)

faculty_approve_booking(u, b) ==
    LET approved == [bookings[b] EXCEPT !.faculty_approved = TRUE]
    IN  /\ UNCHANGED <<halls, events, env, edited>>
        /\ IF role(u) \notin {"faculty"}
           THEN /\ response' = Resp(302, "redirect", 0)
                /\ UNCHANGED <<bookings, outbox>>
           ELSE IF ~events[bookings[b].event_id].requires_faculty_approval
           THEN /\ response' = Resp(302, "redirect", 0)
                /\ UNCHANGED <<bookings, outbox>>
           ELSE /\ FinalizeReady(approved) => approved.finalizations < MaxFinal
                /\ \E qr \in generate_ticket_qr, pdf \in generate_ticket_pdf :
                      bookings' = [bookings EXCEPT
                                     ![b] = finalize_booking_if_ready(approved, qr, pdf)]
                /\ send_ticket_email(b, approved)
                /\ response' = Resp(302, "redirect", 0)

(***************************************************************************)
(* POST /organizer/events/<event_id>/edit                                  *)
(***************************************************************************)
\* an edit that sends the event back to the admin's approval
edit_event_resets_status(u, e, capacity, requires_faculty) ==
    /\ UNCHANGED <<halls, bookings, env, outbox>>
    /\ IF role(u) \notin {"organizer", "admin"}
       THEN /\ response' = Resp(302, "redirect", 0)
            /\ UNCHANGED <<events, edited>>
       ELSE IF u # events[e].organizer_id /\ role(u) # "admin"
       THEN /\ response' = Resp(302, "redirect", 0)
            /\ UNCHANGED <<events, edited>>
       ELSE /\ events' = [events EXCEPT ![e].capacity = capacity,
                                        ![e].requires_faculty_approval = requires_faculty,
                                        ![e].status = "pending"]
            /\ edited' = edited \cup {e}
            /\ response' = Resp(302, "redirect", 0)

edit_event(u, e, capacity, requires_faculty) ==
    /\ UNCHANGED <<halls, bookings, env, outbox>>
    /\ IF role(u) \notin {"organizer", "admin"}
       THEN /\ response' = Resp(302, "redirect", 0)
            /\ UNCHANGED <<events, edited>>
       ELSE IF u # events[e].organizer_id /\ role(u) # "admin"
       THEN /\ response' = Resp(302, "redirect", 0)
            /\ UNCHANGED <<events, edited>>
       ELSE /\ events' = [events EXCEPT ![e].capacity = capacity,
                                        ![e].requires_faculty_approval = requires_faculty]
            /\ edited' = edited \cup {e}
            /\ response' = Resp(302, "redirect", 0)

(***************************************************************************)
(* Conflict detector and POST /admin/events/<event_id>/approve             *)
(***************************************************************************)
\* an overlap test that compares both ends of the stored event with et
conflicts_wrong_end(hall_id, st, et, exclude) ==
    {x \in EventIds : /\ events[x].hall_id = hall_id
                      /\ events[x].status = "approved"
                      /\ events[x].start_time < et
                      /\ events[x].end_time > et
                      /\ x # exclude}

\* an overlap test on closed intervals
conflicts_closed(hall_id, st, et, exclude) ==
    {x \in EventIds : /\ events[x].hall_id = hall_id
                      /\ events[x].status = "approved"
                      /\ events[x].start_time <= et
                      /\ events[x].end_time >= st
                      /\ x # exclude}

\* exclude = 0 excludes nothing (ids start at 1)
conflicts(hall_id, st, et, exclude) ==
    {x \in EventIds : /\ events[x].hall_id = hall_id
                      /\ events[x].status = "approved"
                      /\ events[x].start_time < et
                      /\ events[x].end_time > st
                      /\ x # exclude}

\* an approval that does not look at the hall's status
admin_approve_event_ignores_block(u, e) ==
    LET ev == events[e]
    IN  /\ UNCHANGED <<halls, bookings, env, edited, outbox>>
        /\ IF role(u) \notin {"admin"}
           THEN /\ response' = Resp(302, "redirect", 0)
                /\ UNCHANGED events
           ELSE IF conflicts(ev.hall_id, ev.start_time, ev.end_time, e) # {}
           THEN /\ response' = Resp(302, "redirect", 0)
                /\ UNCHANGED events
           ELSE /\ events' = [events EXCEPT ![e].status = "approved"]
                /\ response' = Resp(302, "redirect", 0)

admin_approve_event(u, e) ==
    LET ev == events[e]
    IN  /\ UNCHANGED <<halls, bookings, env, edited, outbox>>
        /\ IF role(u) \notin {"admin"}
           THEN /\ response' = Resp(302, "redirect", 0)
                /\ UNCHANGED events
           ELSE IF halls[ev.hall_id].status = "blocked"
           THEN /\ response' = Resp(302, "redirect", 0)
                /\ UNCHANGED events
           ELSE IF conflicts(ev.hall_id, ev.start_time, ev.end_time, e) # {}
           THEN /\ response' = Resp(302, "redirect", 0)
                /\ UNCHANGED events
           ELSE /\ events' = [events EXCEPT ![e].status = "approved"]
                /\ response' = Resp(302, "redirect", 0)

(***************************************************************************)
(* POST /organizer/events/new. hall_id 0 is the id of no hall. The         *)
(* submitted requires_faculty is read and not used. A refused request is   *)
(* redirected to the form, an admitted one to the page of the new event.   *)
(***************************************************************************)
NoHall == 0

\* an event row stored for later approval
NewEvent_pending(u, hall_id, capacity, st, et) ==
    [hall_id |-> hall_id, organizer_id |-> u, capacity |-> capacity,
     start_time |-> st, end_time |-> et, status |-> "pending",
     requires_faculty_approval |-> TRUE]

NewEvent(u, hall_id, capacity, st, et) ==
    [hall_id |-> hall_id, organizer_id |-> u, capacity |-> capacity,
     start_time |-> st, end_time |-> et, status |-> "approved",
     requires_faculty_approval |-> TRUE]

Refused == Resp(302, "create_event", 0)

Created(id) == [code |-> 302, body |-> "event_detail", event_id |-> id]

\* a creation that stores the flag submitted with the form
create_event_reads_flag(u, hall_id, capacity, st, et, requires_faculty) ==
    /\ UNCHANGED <<halls, bookings, env, edited, outbox>>
    /\ IF role(u) \notin {"organizer", "admin"}
       THEN /\ response' = Resp(302, "redirect", 0)
            /\ UNCHANGED events
       ELSE IF st >= et
       THEN /\ response' = Refused
            /\ UNCHANGED events
       ELSE IF hall_id \notin HallIds
       THEN /\ response' = Refused
            /\ UNCHANGED events
       ELSE IF halls[hall_id].status = "blocked"
       THEN /\ response' = Refused
            /\ UNCHANGED events
       ELSE IF conflicts(hall_id, st, et, 0) # {}
       THEN /\ response' = Refused
            /\ UNCHANGED events
       ELSE /\ Len(events) < MaxEvents
            /\ events' = Append(events,
                  [NewEvent(u, hall_id, capacity, st, et)
                      EXCEPT !.requires_faculty_approval = requires_faculty])
            /\ response' = Created(Len(events) + 1)

create_event(u, hall_id, capacity, st, et, requires_faculty) ==
    /\ UNCHANGED <<halls, bookings, env, edited, outbox>>
    /\ IF role(u) \notin {"organizer", "admin"}
       THEN /\ response' = Resp(302, "redirect", 0)
            /\ UNCHANGED events
       ELSE IF st >= et
       THEN /\ response' = Refused
            /\ UNCHANGED events
       ELSE IF hall_id \notin HallIds
       THEN /\ response' = Refused
            /\ UNCHANGED events
       ELSE IF halls[hall_id].status = "blocked"
       THEN /\ response' = Refused
            /\ UNCHANGED events
       ELSE IF conflicts(hall_id, st, et, 0) # {}
       THEN /\ response' = Refused
            /\ UNCHANGED events
       ELSE /\ Len(events) < MaxEvents
            /\ events' = Append(events, NewEvent(u, hall_id, capacity, st, et))
            /\ response' = Created(Len(events) + 1)

(***************************************************************************)
(* POST /admin/halls/<hall_id>/block                                       *)
(***************************************************************************)
\* a block that sends the hall's approved events back to pending
admin_block_hall_suspends(u, h, action) ==
    /\ UNCHANGED <<bookings, env, edited, outbox>>
    /\ response' = Resp(302, "redirect", 0)
    /\ IF role(u) \notin {"admin"}
       THEN UNCHANGED <<halls, events>>
       ELSE /\ halls' = [halls EXCEPT
                           ![h].status = IF action = "block" THEN "blocked" ELSE "free"]
            /\ events' = [x \in EventIds |->
                             IF action = "block" /\ events[x].hall_id = h
                             THEN [events[x] EXCEPT !.status = "pending"]
                             ELSE events[x]]

admin_block_hall(u, h, action) ==
    /\ UNCHANGED <<events, bookings, env, edited, outbox>>
    /\ response' = Resp(302, "redirect", 0)
    /\ IF role(u) \notin {"admin"}
       THEN UNCHANGED halls
       ELSE halls' = [halls EXCEPT
                        ![h].status = IF action = "block" THEN "blocked" ELSE "free"]

(***************************************************************************)
(* The booking engine, one request at a time.                              *)
(***************************************************************************)
Next ==
    \/ \E u \in Bookers, e \in EventIds : book_event(u, e)
    \/ \E u \in Users, b \in BookingIds : cancel_booking(u, b)
    \/ \E u \in Users, b \in BookingIds : organizer_approve_booking(u, b)
    \/ \E u \in Users, b \in BookingIds : faculty_approve_booking(u, b)
    \/ \E u \in Users, e \in EventIds, c \in 0..MaxCap, r \in BOOLEAN :
          edit_event(u, e, c, r)

Spec == Init /\ [][Next]_vars

(***************************************************************************)
(* The same engine while the bookings table holds at most MaxSingle rows:  *)
(* the life cycle of one booking under every request.                      *)
(***************************************************************************)
NextSingle ==
    \/ \E u \in Bookers, e \in EventIds :
          book_event(u, e) /\ Len(bookings') <= MaxSingle
    \/ \E u \in Users, b \in BookingIds : cancel_booking(u, b)
    \/ \E u \in Users, b \in BookingIds : organizer_approve_booking(u, b)
    \/ \E u \in Users, b \in BookingIds : faculty_approve_booking(u, b)
    \/ \E u \in Users, e \in EventIds, c \in 0..MaxCap, r \in BOOLEAN :
          edit_event(u, e, c, r)

SpecSingle == Init /\ [][NextSingle]_vars

(***************************************************************************)
(* One booking's life cycle on an installation with any combination of the *)
(* optional ticket libraries.                                              *)
(***************************************************************************)
InitTickets ==
    /\ halls = SeedHalls
    /\ events = <<CreatedEvent, SeedPendingEvent>>
    /\ bookings = << >>
    /\ qrcode \in BOOLEAN
    /\ have_reportlab \in BOOLEAN
    /\ mail = FALSE
    /\ response = Resp(0, "none", 0)
    /\ edited = {}
    /\ outbox = << >>
    /\ accounts = << >>
    /\ requests = << >>

SpecTickets == InitTickets /\ [][NextSingle]_vars

(***************************************************************************)
(* The finalization pipeline: one booking's life cycle, without edits of   *)
(* the events, on an installation with any combination of the optional     *)
(* ticket libraries and with or without mail.                              *)
(***************************************************************************)
InitPipeline ==
    /\ halls = SeedHalls
    /\ events = <<CreatedEvent, SeedPendingEvent>>
    /\ bookings = << >>
    /\ qrcode \in BOOLEAN
    /\ have_reportlab \in BOOLEAN
    /\ mail \in BOOLEAN
    /\ response = Resp(0, "none", 0)
    /\ edited = {}
    /\ outbox = << >>
    /\ accounts = << >>
    /\ requests = << >>

NextPipeline ==
    \/ \E u \in Bookers, e \in EventIds :
          book_event(u, e) /\ Len(bookings') <= MaxSingle
    \/ \E u \in Users, b \in BookingIds : cancel_booking(u, b)
    \/ \E u \in Users, b \in BookingIds : organizer_approve_booking(u, b)
    \/ \E u \in Users, b \in BookingIds : faculty_approve_booking(u, b)

SpecPipeline == InitPipeline /\ [][NextPipeline]_vars

(***************************************************************************)
(* Event admission, one request at a time.                                 *)
(***************************************************************************)
Times == 0..MaxTime

NextAdmission ==
    \/ \E u \in Users, h \in HallIds \cup {NoHall}, c \in 0..MaxCap,
          st \in Times, et \in Times, r \in BOOLEAN :
          create_event(u, h, c, st, et, r)
    \/ \E u \in Users, e \in EventIds, c \in 0..MaxCap, r \in BOOLEAN :
          edit_event(u, e, c, r)
    \/ \E u \in Users, e \in EventIds : admin_approve_event(u, e)
    \/ \E u \in Users, h \in HallIds, action \in {"block", "unblock"} :
          admin_block_hall(u, h, action)

SpecAdmission == Init /\ [][NextAdmission]_vars

(***************************************************************************)
(* The admission requests alone: events are created and approved and halls *)
(* are blocked, and no event is edited.                                    *)
(***************************************************************************)
Hours == 0..MaxHour

NextCreate ==
    \/ \E u \in Users, h \in HallIds \cup {NoHall}, c \in 0..MaxCap,
          st \in Hours, et \in Hours :
          create_event(u, h, c, st, et, FALSE)
    \/ \E u \in Users, e \in EventIds : admin_approve_event(u, e)
    \/ \E u \in Users, h \in HallIds, action \in {"block", "unblock"} :
          admin_block_hall(u, h, action)

SpecCreate == Init /\ [][NextCreate]_vars

(***************************************************************************)
(* The capacity calculator applied to a range of databases. Event 1 is    *)
(* stored without a capacity of its own (create_event and admin_halls      *)
(* store 0 when the form leaves the capacity empty) and its hall has any   *)
(* capacity of 0..MaxSeats. The bookings table holds up to MaxBookings     *)
(* rows of event 1 in any status, with no more confirmed rows than the     *)
(* hall has seats: a pending and a cancelled row as book_event and         *)
(* cancel_booking leave them, a confirmed row as the finalization leaves   *)
(* it. Row i belongs to the user with id i. The organizer of an event     *)
(* edits its capacity and leaves the approval flag as it is.               *)
(***************************************************************************)
Statuses == {"pending", "confirmed", "cancelled"}

StoredBooking(i, status) ==
    [user_id |-> ((i - 1) % Cardinality(Bookers)) + 1, event_id |-> 1,
     status |-> status,
     faculty_approved |-> (status = "confirmed"),
     organizer_approved |-> (status = "confirmed"),
     qr_path |-> NULL, pdf_path |-> NULL,
     finalizations |-> IF status = "confirmed" THEN 1 ELSE 0]

InitCapacity ==
    /\ \E c \in 0..MaxSeats :
          /\ halls = [SeedHalls EXCEPT ![1].capacity = c]
          /\ \E n \in 0..MaxBookings :
                \E st \in [1..n -> Statuses] :
                   /\ c > 0 => Cardinality({i \in 1..n : st[i] = "confirmed"}) <= c
                   /\ bookings = [i \in 1..n |-> StoredBooking(i, st[i])]
    /\ events = <<[CreatedEvent EXCEPT !.capacity = 0], SeedPendingEvent>>
    /\ qrcode = FALSE
    /\ have_reportlab = FALSE
    /\ mail = FALSE
    /\ response = Resp(0, "none", 0)
    /\ edited = {}
    /\ outbox = << >>
    /\ accounts = << >>
    /\ requests = << >>

\* GET /events/<event_id>: the page shows what seats_available returns
event_detail(e) ==
    /\ UNCHANGED <<halls, events, bookings, env, edited, outbox>>
    /\ response' = [code |-> 200, body |-> "event_detail",
                    available |-> seats_available(e)]

NextCapacity ==
    \/ \E e \in EventIds : event_detail(e)
    \/ \E u \in Bookers, e \in EventIds : book_event(u, e)
    \/ \E e \in EventIds, c \in 0..MaxSeats :
          edit_event(events[e].organizer_id, e, c, events[e].requires_faculty_approval)

SpecCapacity == InitCapacity /\ [][NextCapacity]_vars

\* The calculator under cancellations: stored bookings of event 1 are
\* cancelled by their owners and by others, between edits of the capacity.
NextCancel ==
    \/ \E e \in EventIds : event_detail(e)
    \/ \E u \in Users, b \in BookingIds : cancel_booking(u, b)
    \/ \E e \in EventIds, c \in 0..MaxSeats :
          edit_event(events[e].organizer_id, e, c, events[e].requires_faculty_approval)

SpecCancel == InitCapacity /\ [][NextCancel]_vars


(***************************************************************************)
(* Bookings of events of different owners: the admin creates events of its *)
(* own beside the organizer's seeded ones, the owners and the admin edit   *)
(* them, and one booking is made and approved.                             *)
(***************************************************************************)
NextAuthority ==
    \/ \E h \in HallIds, st \in Hours, et \in Hours :
          create_event(AdminId, h, MaxCap, st, et, FALSE)
    \/ \E u \in Users, e \in EventIds, c \in 0..MaxCap, r \in BOOLEAN :
          edit_event(u, e, c, r)
    \/ \E u \in Bookers, e \in EventIds :
          book_event(u, e) /\ Len(bookings') <= MaxSingle
    \/ \E u \in Users, b \in BookingIds : organizer_approve_booking(u, b)

SpecAuthority == Init /\ [][NextAuthority]_vars

(***************************************************************************)
(* User accounts. `accounts` holds the User rows stored after the seeded   *)
(* ones. A requester is a seeded user or nobody (not logged in). The field *)
(* role_by is history: the role of the requester whose request wrote the   *)
(* row's role last.                                                        *)
(***************************************************************************)
MaxAccounts == 2    \* User rows stored after the seeded ones
Anonymous == 0      \* a requester who is not logged in
SeedEmail == 0      \* the e-mail address of a seeded user
Emails == 0..MaxAccounts
Roles == {"student", "faculty", "organizer", "admin"}
NoRole == ""        \* the form has no role field, or an empty one

requester_role(u) == IF u = Anonymous THEN "anonymous" ELSE role(u)

email_taken(e) == e = SeedEmail \/ \E i \in DOMAIN accounts : accounts[i].email = e

\* User(email=..., role=role): the role of the form, "student" when absent
NewUser(u, e, r) ==
    [email |-> e, role |-> IF r = NoRole THEN "student" ELSE r, active |-> TRUE,
     role_by |-> requester_role(u)]

\* POST /register: open to everybody, no login and no role test
register(e, r) ==
    /\ IF email_taken(e)
       THEN /\ response' = Resp(302, "register", 0)
            /\ UNCHANGED accounts
       ELSE /\ Len(accounts) < MaxAccounts
            /\ accounts' = Append(accounts, NewUser(Anonymous, e, r))
            /\ response' = Resp(302, "login", 0)
    /\ UNCHANGED <<halls, events, bookings, qrcode, have_reportlab, mail, edited,
                   outbox, requests>>

\* POST /admin/users
admin_users(u, e, r) ==
    /\ IF u = Anonymous
       THEN /\ response' = Resp(302, "login", 0)
            /\ UNCHANGED accounts
       ELSE IF role(u) # "admin"
       THEN /\ response' = Resp(302, "redirect", 0)
            /\ UNCHANGED accounts
       ELSE IF email_taken(e)
       THEN /\ response' = Resp(302, "admin_users", 0)
            /\ UNCHANGED accounts
       ELSE /\ Len(accounts) < MaxAccounts
            /\ accounts' = Append(accounts, NewUser(u, e, r))
            /\ response' = Resp(302, "admin_users", 0)
    /\ UNCHANGED <<halls, events, bookings, qrcode, have_reportlab, mail, edited,
                   outbox, requests>>

\* POST /admin/users/<id>/update
admin_update_user(u, i, r, active) ==
    /\ IF u = Anonymous
       THEN /\ response' = Resp(302, "login", 0)
            /\ UNCHANGED accounts
       ELSE IF role(u) # "admin"
       THEN /\ response' = Resp(302, "redirect", 0)
            /\ UNCHANGED accounts
       ELSE IF i \notin DOMAIN accounts
       THEN /\ response' = Resp(404, "abort", 0)
            /\ UNCHANGED accounts
       ELSE /\ accounts' = [accounts EXCEPT ![i] =
                              [@ EXCEPT !.role = IF r = NoRole THEN @ ELSE r,
                                        !.role_by = IF r = NoRole THEN @ ELSE requester_role(u),
                                        !.active = active]]
            /\ response' = Resp(302, "admin_users", 0)
    /\ UNCHANGED <<halls, events, bookings, qrcode, have_reportlab, mail, edited,
                   outbox, requests>>

NextAccounts ==
    \/ \E e \in Emails, r \in Roles \cup {NoRole} : register(e, r)
    \/ \E u \in Users \cup {Anonymous}, e \in Emails, r \in Roles \cup {NoRole} :
          admin_users(u, e, r)
    \/ \E u \in Users \cup {Anonymous}, i \in 1..MaxAccounts, r \in Roles \cup {NoRole},
          active \in BOOLEAN :
          admin_update_user(u, i, r, active)

SpecAccounts == Init /\ [][NextAccounts]_vars


(***************************************************************************)
(* Requests in flight. The handlers above run one request from its first   *)
(* line to its last; here a request is cut where it reads or writes the    *)
(* database, and the steps of different requests interleave. `requests`    *)
(* holds one record for each request started:                              *)
(*   op, user, event_id     the route, current_user and the event          *)
(*   booking_id             the Booking the request works on (0: none yet) *)
(*   pc                     the position of the request                    *)
(*   avail                  book_event's local variable avail              *)
(*   checked_at             history: rows stored when avail was computed   *)
(*   loaded, row            the Booking as the session loaded it and as    *)
(*                          the session holds it now                       *)
(*   dirty                  the session holds changes it did not commit    *)
(*   code                   the status code returned (0: not returned yet) *)
(***************************************************************************)
MaxRequests == 2    \* requests started
Unset == -2         \* a local variable that was not assigned

RequestIds == DOMAIN requests

Request(op, u, e, b, pc, code) ==
    [op |-> op, user |-> u, event_id |-> e, booking_id |-> b, pc |-> pc,
     avail |-> Unset, checked_at |-> Unset, loaded |-> NULL, row |-> NULL,
     dirty |-> FALSE, code |-> code]

\* the status code of a request that ran to its last line
Returned(op) == IF op = "book" THEN 201 ELSE 302

\* book_event up to the sold-out test
book_check(u, e) ==
    LET avail == seats_available(e)
    IN  /\ Len(requests) < MaxRequests
        /\ requests' = Append(requests,
              IF events[e].status # "approved" /\ role(u) # "admin"
              THEN Request("book", u, e, 0, "done", 400)
              ELSE IF sold_out(avail)
              THEN Request("book", u, e, 0, "done", 409)
              ELSE [Request("book", u, e, 0, "checked", 0)
                       EXCEPT !.avail = avail, !.checked_at = Len(bookings)])
        /\ UNCHANGED <<halls, events, bookings, qrcode, have_reportlab, mail,
                       response, edited, outbox, accounts>>

\* book_event: the query for an existing booking
book_lookup(r) ==
    LET req == requests[r]
        existing == ActiveBookings(req.user, req.event_id)
    IN  /\ req.pc = "checked"
        /\ requests' = [requests EXCEPT ![r] =
              IF existing # {}
              THEN [req EXCEPT !.pc = "done", !.code = 200,
                               !.booking_id = FirstOf(existing)]
              ELSE [req EXCEPT !.pc = "looked"]]
        /\ UNCHANGED <<halls, events, bookings, qrcode, have_reportlab, mail,
                       response, edited, outbox, accounts>>

\* an insert that repeats the sold-out test on the rows stored now
book_insert_rechecked(r) ==
    LET req == requests[r]
    IN  /\ req.pc = "looked"
        /\ IF sold_out(seats_available(req.event_id))
           THEN /\ requests' = [requests EXCEPT ![r] = [req EXCEPT !.pc = "done", !.code = 409]]
                /\ UNCHANGED bookings
           ELSE /\ Len(bookings) < MaxBookings
                /\ bookings' = Append(bookings, NewBooking(req.user, req.event_id))
                /\ requests' = [requests EXCEPT ![r] =
                      [req EXCEPT !.pc = "committed", !.booking_id = Len(bookings) + 1]]
        /\ UNCHANGED <<halls, events, qrcode, have_reportlab, mail,
                       response, edited, outbox, accounts>>

\* book_event: the insert, the auto-approval and the commit
book_insert(r) ==
    LET req == requests[r]
    IN  /\ req.pc = "looked"
        /\ Len(bookings) < MaxBookings
        /\ bookings' = Append(bookings, NewBooking(req.user, req.event_id))
        /\ requests' = [requests EXCEPT ![r] =
              [req EXCEPT !.pc = "committed", !.booking_id = Len(bookings) + 1]]
        /\ UNCHANGED <<halls, events, qrcode, have_reportlab, mail,
                       response, edited, outbox, accounts>>

\* organizer_approve_booking up to its commit
organizer_approve_begin(u, b) ==
    /\ Len(requests) < MaxRequests
    /\ IF role(u) \notin {"organizer", "admin"}
       THEN /\ requests' = Append(requests, Request("organizer", u, 0, 0, "done", 302))
            /\ UNCHANGED bookings
       ELSE IF b \notin BookingIds
       THEN /\ requests' = Append(requests, Request("organizer", u, 0, 0, "done", 404))
            /\ UNCHANGED bookings
       ELSE IF role(u) # "admin" /\ u # EventOfRow(bookings[b]).organizer_id
       THEN /\ requests' = Append(requests, Request("organizer", u, 0, b, "done", 403))
            /\ UNCHANGED bookings
       ELSE /\ bookings' = [bookings EXCEPT ![b].organizer_approved = TRUE]
            /\ requests' = Append(requests,
                  Request("organizer", u, bookings[b].event_id, b, "committed", 0))
    /\ UNCHANGED <<halls, events, qrcode, have_reportlab, mail,
                   response, edited, outbox, accounts>>

\* faculty_approve_booking up to its commit
faculty_approve_begin(u, b) ==
    /\ Len(requests) < MaxRequests
    /\ IF role(u) # "faculty"
       THEN /\ requests' = Append(requests, Request("faculty", u, 0, 0, "done", 302))
            /\ UNCHANGED bookings
       ELSE IF b \notin BookingIds
       THEN /\ requests' = Append(requests, Request("faculty", u, 0, 0, "done", 404))
            /\ UNCHANGED bookings
       ELSE IF ~EventOfRow(bookings[b]).requires_faculty_approval
       THEN /\ requests' = Append(requests, Request("faculty", u, 0, b, "done", 302))
            /\ UNCHANGED bookings
       ELSE /\ bookings' = [bookings EXCEPT ![b].faculty_approved = TRUE]
            /\ requests' = Append(requests,
                  Request("faculty", u, bookings[b].event_id, b, "committed", 0))
    /\ UNCHANGED <<halls, events, qrcode, have_reportlab, mail,
                   response, edited, outbox, accounts>>

\* a finalization that only the faculty's approval calls
finalize_begin_faculty_only(r) ==
    LET req == requests[r]
        bk == bookings[req.booking_id]
    IN  /\ req.pc = "committed"
        /\ IF FinalizeReady(bk) /\ req.op = "faculty"
           THEN \E qr \in generate_ticket_qr, pdf \in generate_ticket_pdf :
                   requests' = [requests EXCEPT ![r] =
                      [req EXCEPT !.pc = "generated", !.loaded = bk,
                                  !.row = finalize_booking_if_ready(bk, qr, pdf),
                                  !.dirty = TRUE]]
           ELSE requests' = [requests EXCEPT ![r] =
                      [req EXCEPT !.pc = "done", !.code = Returned(req.op)]]
        /\ UNCHANGED <<halls, events, bookings, qrcode, have_reportlab, mail,
                       response, edited, outbox, accounts>>

\* finalize_booking_if_ready up to its commit: the row is read anew (the
\* commit before the call expired it), tested, and changed in the session
finalize_begin(r) ==
    LET req == requests[r]
        bk == bookings[req.booking_id]
    IN  /\ req.pc = "committed"
        /\ IF FinalizeReady(bk)
           THEN \E qr \in generate_ticket_qr, pdf \in generate_ticket_pdf :
                   requests' = [requests EXCEPT ![r] =
                      [req EXCEPT !.pc = "generated", !.loaded = bk,
                                  !.row = finalize_booking_if_ready(bk, qr, pdf),
                                  !.dirty = TRUE]]
           ELSE requests' = [requests EXCEPT ![r] =
                      [req EXCEPT !.pc = "done", !.code = Returned(req.op)]]
        /\ UNCHANGED <<halls, events, bookings, qrcode, have_reportlab, mail,
                       response, edited, outbox, accounts>>

\* a finalization that goes on to the e-mail without its commit
finalize_commit_skipped(r) ==
    LET req == requests[r]
    IN  /\ req.pc = "generated"
        /\ requests' = [requests EXCEPT ![r] = [req EXCEPT !.pc = "persisted"]]
        /\ UNCHANGED <<halls, events, bookings, qrcode, have_reportlab, mail,
                       response, edited, outbox, accounts>>

\* the commit of finalize_booking_if_ready: the UPDATE carries the columns
\* whose value in the session differs from the value loaded
finalize_commit(r) ==
    LET req == requests[r]
        b == req.booking_id
    IN  /\ req.pc = "generated"
        /\ bookings' = [bookings EXCEPT ![b] =
              [@ EXCEPT !.status = IF req.row.status # req.loaded.status
                                   THEN req.row.status ELSE @,
                        !.qr_path = IF req.row.qr_path # req.loaded.qr_path
                                    THEN req.row.qr_path ELSE @,
                        !.pdf_path = IF req.row.pdf_path # req.loaded.pdf_path
                                     THEN req.row.pdf_path ELSE @,
                        !.finalizations = @ + 1]]
        /\ requests' = [requests EXCEPT ![r] =
              [req EXCEPT !.pc = "persisted", !.dirty = FALSE]]
        /\ UNCHANGED <<halls, events, qrcode, have_reportlab, mail,
                       response, edited, outbox, accounts>>

\* the ticket e-mail of finalize_booking_if_ready, and the return
finalize_notify(r) ==
    LET req == requests[r]
    IN  /\ req.pc = "persisted"
        /\ send_ticket_email(req.booking_id, req.loaded)
        /\ requests' = [requests EXCEPT ![r] =
              [req EXCEPT !.pc = "done", !.code = Returned(req.op)]]
        /\ UNCHANGED <<halls, events, bookings, qrcode, have_reportlab, mail,
                       response, edited, accounts>>

\* Stored by the handlers above: no booking, or the student's booking of
\* event 1 waiting for its approvals, or for the faculty's approval alone.
InitRequests ==
    /\ halls = SeedHalls
    /\ events = <<CreatedEvent, SeedPendingEvent>>
    /\ \E n \in 0..1, o \in BOOLEAN :
          bookings = [b \in 1..n |->
                        [NewBooking(StudentId, 1) EXCEPT !.organizer_approved = o]]
    /\ qrcode = TRUE
    /\ have_reportlab = TRUE
    /\ mail = TRUE
    /\ response = Resp(0, "none", 0)
    /\ edited = {}
    /\ outbox = << >>
    /\ accounts = << >>
    /\ requests = << >>

NextRequests ==
    \/ \E u \in Bookers, e \in EventIds : book_check(u, e)
    \/ \E r \in RequestIds : book_lookup(r)
    \/ \E r \in RequestIds : book_insert(r)
    \/ \E u \in Users, b \in 1..MaxBookings : organizer_approve_begin(u, b)
    \/ \E u \in Users, b \in 1..MaxBookings : faculty_approve_begin(u, b)
    \/ \E r \in RequestIds : finalize_begin(r)
    \/ \E r \in RequestIds : finalize_commit(r)
    \/ \E r \in RequestIds : finalize_notify(r)

SpecRequests == InitRequests /\ [][NextRequests]_vars


(***************************************************************************)
(* Event admission with requests in flight: create_event and               *)
(* admin_approve_event are cut between the conflict query and the commit.  *)
(* A record of `requests` holds the route, current_user, the position, the *)
(* hall, capacity and interval the request works with, the id of its event *)
(* (0: none yet) and whether the request stored an approved event.         *)
(***************************************************************************)
EventRequest(op, u, pc, hall_id, capacity, st, et, e) ==
    [op |-> op, user |-> u, pc |-> pc, hall_id |-> hall_id, capacity |-> capacity,
     start_time |-> st, end_time |-> et, event_id |-> e, admitted |-> FALSE]

\* create_event up to the conflict query
create_check(u, hall_id, capacity, st, et) ==
    /\ Len(requests) < MaxRequests
    /\ requests' = Append(requests,
          EventRequest("create", u,
              IF \/ role(u) \notin {"organizer", "admin"}
                 \/ st >= et
                 \/ hall_id \notin HallIds
                 \/ halls[hall_id].status = "blocked"
                 \/ conflicts(hall_id, st, et, 0) # {}
              THEN "done" ELSE "clear",
              hall_id, capacity, st, et, 0))
    /\ UNCHANGED <<halls, events, bookings, qrcode, have_reportlab, mail,
                   response, edited, outbox, accounts>>

\* create_event: the uploads, the insert and the commit
create_insert(r) ==
    LET req == requests[r]
    IN  /\ req.op = "create" /\ req.pc = "clear"
        /\ Len(events) < MaxEvents
        /\ events' = Append(events, NewEvent(req.user, req.hall_id, req.capacity,
                                             req.start_time, req.end_time))
        /\ requests' = [requests EXCEPT ![r] =
              [req EXCEPT !.pc = "done", !.event_id = Len(events) + 1,
                          !.admitted = TRUE]]
        /\ UNCHANGED <<halls, bookings, qrcode, have_reportlab, mail,
                       response, edited, outbox, accounts>>

\* admin_approve_event up to the conflict query
approve_check(u, e) ==
    LET ev == events[e]
    IN  /\ Len(requests) < MaxRequests
        /\ requests' = Append(requests,
              EventRequest("approve", u,
                  IF \/ role(u) \notin {"admin"}
                     \/ halls[ev.hall_id].status = "blocked"
                     \/ conflicts(ev.hall_id, ev.start_time, ev.end_time, e) # {}
                  THEN "done" ELSE "clear",
                  ev.hall_id, ev.capacity, ev.start_time, ev.end_time, e))
        /\ UNCHANGED <<halls, events, bookings, qrcode, have_reportlab, mail,
                       response, edited, outbox, accounts>>

\* admin_approve_event: the status change and the commit
approve_commit(r) ==
    LET req == requests[r]
    IN  /\ req.op = "approve" /\ req.pc = "clear"
        /\ events' = [events EXCEPT ![req.event_id].status = "approved"]
        /\ requests' = [requests EXCEPT ![r] =
              [req EXCEPT !.pc = "done", !.admitted = TRUE]]
        /\ UNCHANGED <<halls, bookings, qrcode, have_reportlab, mail,
                       response, edited, outbox, accounts>>

\* one requester with the role of the route and one without it
NextVenue ==
    \/ \E u \in {OrganizerId, StudentId}, h \in HallIds \cup {NoHall},
          st \in Hours, et \in Hours :
          create_check(u, h, MaxCap, st, et)
    \/ \E r \in RequestIds : create_insert(r)
    \/ \E u \in {AdminId, OrganizerId}, e \in EventIds : approve_check(u, e)
    \/ \E r \in RequestIds : approve_commit(r)

SpecVenue == Init /\ [][NextVenue]_vars


(***************************************************************************)
(* Shorthands of the properties.                                           *)
(***************************************************************************)
EventOf(b) == events[bookings[b].event_id]

\* the effective capacity seats_available works with, NoLimit when there is none
EffectiveCapacity(e) ==
    IF events[e].capacity > 0 THEN events[e].capacity
    ELSE IF halls[events[e].hall_id].capacity > 0
         THEN halls[events[e].hall_id].capacity
         ELSE NoLimit

\* organizer_approved of booking b becomes true in this step (at creation or later)
OrganizerFlagSet(b) ==
    /\ bookings'[b].organizer_approved
    /\ b \in BookingIds => ~bookings[b].organizer_approved

(***************************************************************************)
(* C1. Faculty-skip path: when organizer_approved of a pending booking     *)
(* becomes true (by organizer_approve_booking or at creation) and the      *)
(* booking's event does not require faculty approval, the booking is       *)
(* confirmed by the end of that request, whatever faculty_approved is.     *)
(***************************************************************************)
C1_FacultySkipConfirms ==
    [][\A b \in DOMAIN bookings' :
          ( /\ OrganizerFlagSet(b)
            /\ b \in BookingIds => bookings[b].status = "pending"
            /\ ~events[bookings'[b].event_id].requires_faculty_approval )
          => bookings'[b].status = "confirmed"]_vars

(***************************************************************************)
(* C2. Seat-capacity limit: an event that was never edited and has a       *)
(* finite effective capacity C never has more than C confirmed bookings.   *)
(***************************************************************************)
C2_CapacityLimit ==
    \A e \in EventIds :
        (e \notin edited /\ EffectiveCapacity(e) # NoLimit)
        => seats_taken(e) <= EffectiveCapacity(e)

(***************************************************************************)
(* C3. Finalization exactly-once: the body of the finalization (status set *)
(* to confirmed, artifacts generated, ticket e-mail attempted) runs at     *)
(* most once for every booking, over any sequence of requests.             *)
(***************************************************************************)
C3_FinalizedAtMostOnce ==
    \A b \in BookingIds : bookings[b].finalizations <= 1

(***************************************************************************)
(* C4. Venue non-overlap: no two distinct approved events share a hall     *)
(* with overlapping [start, end) intervals, after any sequence of          *)
(* create_event, edit_event, admin_approve_event and admin_block_hall.     *)
(***************************************************************************)
Overlap(x, y) ==
    /\ events[x].hall_id = events[y].hall_id
    /\ events[x].start_time < events[y].end_time
    /\ events[y].start_time < events[x].end_time

C4_NoOverlappingApproved ==
    \A x \in EventIds, y \in EventIds :
        (x # y /\ events[x].status = "approved" /\ events[y].status = "approved")
        => ~Overlap(x, y)

\* two approved events back to back in one hall: an admission next to an
\* approved event that the conflict check had to let through
C4_Witness ==
    \E x \in EventIds, y \in EventIds :
        /\ x # y
        /\ events[x].status = "approved" /\ events[y].status = "approved"
        /\ events[x].hall_id = events[y].hall_id
        /\ events[x].end_time = events[y].start_time

(***************************************************************************)
(* C5. At most one active booking per (user, event): for every user and    *)
(* event at most one booking of the pair has a status other than cancelled.*)
(***************************************************************************)
C5_OneActiveBooking ==
    \A u \in Users, e \in EventIds : Cardinality(ActiveBookings(u, e)) <= 1

(***************************************************************************)
(* C6. Idempotent rebooking: a book_event by a user who holds a            *)
(* non-cancelled booking of the event answers already_booked with the id   *)
(* of that booking and inserts no row, also when the event is sold out.    *)
(***************************************************************************)
C6_IdempotentRebooking ==
    [][\A u \in Bookers, e \in EventIds :
          (ActiveBookings(u, e) # {} /\ book_event(u, e))
          => /\ bookings' = bookings
             /\ response'.body = "already_booked"
             /\ ActiveBookings(u, e) = {response'.booking_id}]_vars

(***************************************************************************)
(* C7. confirmed is terminal: no request changes the status of a           *)
(* confirmed booking.                                                      *)
(***************************************************************************)
C7_ConfirmedTerminal ==
    [][\A b \in BookingIds :
          bookings[b].status = "confirmed" => bookings'[b].status = "confirmed"]_vars

\* C7 as amended: a confirmed booking leaves confirmed only by a
\* cancel_booking request, which moves it to cancelled; the approvals and
\* book_event leave its status alone.
C7_ConfirmedLeftOnlyByCancel ==
    [][\A b \in BookingIds :
          (bookings[b].status = "confirmed" /\ bookings'[b].status # "confirmed")
          => /\ bookings'[b].status = "cancelled"
             /\ \E u \in Users : cancel_booking(u, b)]_vars

C7_Witness ==
    \E b \in BookingIds :
        /\ bookings[b].status = "cancelled"
        /\ bookings[b].finalizations = 1

(***************************************************************************)
(* C8. cancelled is terminal: no request changes the status of a cancelled *)
(* booking; an approval of a cancelled booking never confirms it.          *)
(***************************************************************************)
C8_CancelledTerminal ==
    [][\A b \in BookingIds :
          bookings[b].status = "cancelled" => bookings'[b].status = "cancelled"]_vars

(***************************************************************************)
(* C9. A confirmed booking has organizer_approved = true in every          *)
(* reachable state, and a booking that becomes confirmed while its event   *)
(* requires faculty approval has faculty_approved = true.                  *)
(***************************************************************************)
C9_ConfirmedHasApprovals ==
    /\ [](\A b \in BookingIds :
             bookings[b].status = "confirmed" => bookings[b].organizer_approved)
    /\ [][\A b \in DOMAIN bookings' :
             ( /\ bookings'[b].status = "confirmed"
               /\ b \in BookingIds => bookings[b].status # "confirmed"
               /\ events[bookings'[b].event_id].requires_faculty_approval )
             => bookings'[b].faculty_approved]_vars

C9_Witness ==
    \E b \in BookingIds :
        /\ bookings[b].status = "confirmed"
        /\ EventOf(b).requires_faculty_approval
        /\ bookings[b].faculty_approved
        /\ bookings[b].organizer_approved

(***************************************************************************)
(* C10. Sold-out rejection: a book_event made while seats_available of the *)
(* event is 0 answers sold_out and changes no booking, whoever asks.       *)
(***************************************************************************)
C10_SoldOutAlways ==
    [][\A e \in EventIds :
          seats_available(e) = 0
          => \A u \in Bookers :
                book_event(u, e)
                => /\ bookings' = bookings
                   /\ response' = Resp(409, "sold_out", 0)]_vars

\* C10 as amended: such a request never changes a booking; it answers
\* sold_out when the event is approved or the requester is an admin, and
\* "event not open for booking" otherwise.
C10_SoldOutRejected ==
    [][\A e \in EventIds :
          seats_available(e) = 0
          => \A u \in Bookers :
                book_event(u, e)
                => /\ bookings' = bookings
                   /\ response' =
                        IF events[e].status = "approved" \/ role(u) = "admin"
                        THEN Resp(409, "sold_out", 0)
                        ELSE Resp(400, "event not open for booking", 0)]_vars

\* a sold_out answer while an event is sold out by a confirmed booking
C10_Witness ==
    /\ response = Resp(409, "sold_out", 0)
    /\ \E b \in BookingIds :
          /\ bookings[b].status = "confirmed"
          /\ seats_available(bookings[b].event_id) = 0

(***************************************************************************)
(* C11. Capacity formula: for every event with finite effective capacity C *)
(* and N confirmed bookings, seats_available is max(0, C - N): never       *)
(* negative, also when N > C, and pending and cancelled bookings are not   *)
(* subtracted. The event page shows that value.                            *)
(***************************************************************************)
RECURSIVE ConfirmedUpTo(_, _)
\* the confirmed bookings of event e among the rows 1..n
ConfirmedUpTo(e, n) ==
    IF n = 0 THEN 0
    ELSE ConfirmedUpTo(e, n - 1)
         + (IF bookings[n].event_id = e /\ bookings[n].status = "confirmed"
            THEN 1 ELSE 0)

Remaining(e) ==
    LET C == EffectiveCapacity(e)
        N == ConfirmedUpTo(e, Len(bookings))
    IN  IF N >= C THEN 0 ELSE C - N

C11_CapacityFormula ==
    /\ [](\A e \in EventIds :
             EffectiveCapacity(e) # NoLimit
             => seats_available(e) = Remaining(e) /\ seats_available(e) >= 0)
    /\ [][\A e \in EventIds :
             (EffectiveCapacity(e) # NoLimit /\ event_detail(e))
             => response'.available = Remaining(e)]_vars

\* the page of an event whose capacity edit_event lowered below its confirmed
\* bookings shows 0 seats
C11_Witness ==
    /\ response = [code |-> 200, body |-> "event_detail", available |-> 0]
    /\ \E e \in edited :
          /\ events[e].capacity > 0
          /\ EffectiveCapacity(e) = events[e].capacity
          /\ ConfirmedUpTo(e, Len(bookings)) > EffectiveCapacity(e)

(***************************************************************************)
(* C12. Effective capacity selection: seats_available works with the       *)
(* event's own capacity when it is > 0 (also when it exceeds the hall's),  *)
(* otherwise with the hall's capacity when that is > 0, and otherwise      *)
(* returns the no-limit value, on which book_event never answers sold_out. *)
(***************************************************************************)
LeftOf(cap, e) ==
    IF ConfirmedUpTo(e, Len(bookings)) >= cap THEN 0
    ELSE cap - ConfirmedUpTo(e, Len(bookings))

C12_CapacitySelection ==
    /\ [](\A e \in EventIds :
             seats_available(e) =
                IF events[e].capacity > 0 THEN LeftOf(events[e].capacity, e)
                ELSE IF halls[events[e].hall_id].capacity > 0
                     THEN LeftOf(halls[events[e].hall_id].capacity, e)
                     ELSE NoLimit)
    /\ [][\A e \in EventIds :
             seats_available(e) = NoLimit
             => \A u \in Bookers :
                   book_event(u, e) => response'.body # "sold_out"]_vars

\* a booking just made on an event without any capacity, next to an event
\* whose own capacity exceeds that of its hall
C12_Witness ==
    /\ response.body = "booked"
    /\ seats_available(bookings[response.booking_id].event_id) = NoLimit
    /\ \E x \in EventIds :
          /\ halls[events[x].hall_id].capacity > 0
          /\ events[x].capacity > halls[events[x].hall_id].capacity
          /\ seats_available(x) = events[x].capacity

(***************************************************************************)
(* C13. Conflict predicate: the check of create_event and                  *)
(* admin_approve_event reports a conflict for a candidate [s1, e1) in hall *)
(* V iff an approved event of hall V, other than the candidate itself, has *)
(* s2 < e1 and e2 > s1. Intervals that only touch, events that are not     *)
(* approved and events of other halls never conflict. Both handlers admit  *)
(* exactly the candidates without such an event.                           *)
(***************************************************************************)
\* an approved event of the hall other than `self` that neither ends by st
\* nor starts at or after et
OverlapsApproved(hall_id, st, et, self) ==
    \E x \in EventIds \ {self} :
        /\ events[x].status = "approved"
        /\ events[x].hall_id = hall_id
        /\ ~(events[x].end_time <= st \/ et <= events[x].start_time)

HallFree(h) == h \in HallIds /\ halls[h].status # "blocked"

C13_ConflictPredicate ==
    /\ [](\A h \in HallIds, st \in Hours, et \in Hours, x \in EventIds \cup {0} :
             (conflicts(h, st, et, x) # {}) <=> OverlapsApproved(h, st, et, x))
    /\ [][/\ Len(events') > Len(events)
             => LET new == events'[Len(events')]
                IN  ~OverlapsApproved(new.hall_id, new.start_time, new.end_time, 0)
          /\ response' = Refused
             => \A h \in {x \in HallIds : HallFree(x)}, st \in Hours :
                   \A et \in {t \in Hours : st < t} :
                      ~OverlapsApproved(h, st, et, 0)
                      => \A u \in {OrganizerId, AdminId} :
                            ~create_event(u, h, 0, st, et, FALSE)
          /\ \A e \in {x \in EventIds : events[x].status # "approved"} :
                (HallFree(events[e].hall_id) /\ admin_approve_event(AdminId, e))
                => (events'[e].status = "approved"
                    <=> ~OverlapsApproved(events[e].hall_id, events[e].start_time,
                                          events[e].end_time, e))]_vars

\* an event admitted by create_event that starts when an approved event of
\* its hall ends, next to a pending event of another hall that it overlaps
C13_Witness ==
    /\ response.body = "event_detail"
    /\ LET new == events[response.event_id]
       IN  /\ \E x \in EventIds :
                 /\ events[x].status = "approved"
                 /\ events[x].hall_id = new.hall_id
                 /\ events[x].end_time = new.start_time
           /\ \E y \in EventIds :
                 /\ events[y].hall_id # new.hall_id
                 /\ events[y].start_time < new.end_time
                 /\ events[y].end_time > new.start_time

(***************************************************************************)
(* C14. Artifact stability: once qr_path or pdf_path of a booking is       *)
(* non-null, no later request (a repeated approval, a cancellation         *)
(* followed by an approval, a finalization whose generator returns null)   *)
(* overwrites or clears it.                                                *)
(***************************************************************************)
C14_ArtifactsStable ==
    [][\A b \in BookingIds :
          /\ bookings[b].qr_path # NULL => bookings'[b].qr_path = bookings[b].qr_path
          /\ bookings[b].pdf_path # NULL => bookings'[b].pdf_path = bookings[b].pdf_path]_vars

(***************************************************************************)
(* C15. Immediate confirmation at creation: when an organizer or an admin  *)
(* books an event that does not require faculty approval, the              *)
(* finalization inside book_event confirms the booking, so that the        *)
(* request ends with the booking in status confirmed.                      *)
(***************************************************************************)
C15_ConfirmedAtCreation ==
    [][\A e \in EventIds :
          ~events[e].requires_faculty_approval
          => \A u \in {OrganizerId, AdminId} :
                (book_event(u, e) /\ Len(bookings') > Len(bookings))
                => bookings'[Len(bookings')].status = "confirmed"]_vars

C17_TwoGates ==
    /\ [](\A b \in BookingIds :
             ( /\ EventOf(b).requires_faculty_approval
               /\ bookings[b].faculty_approved # bookings[b].organizer_approved )
             => bookings[b].status # "confirmed")
    /\ [][\A b \in BookingIds :
             ( /\ EventOf(b).requires_faculty_approval
               /\ bookings[b].status = "pending"
               /\ \E u \in Users : \/ organizer_approve_booking(u, b)
                                   \/ faculty_approve_booking(u, b) )
             => bookings'[b].status =
                   IF bookings'[b].faculty_approved /\ bookings'[b].organizer_approved
                   THEN "confirmed" ELSE "pending"]_vars

\* a student's booking confirmed once, with both flags, by an approval
C17_Witness ==
    /\ response = Resp(302, "redirect", 0)
    /\ \E b \in BookingIds :
          /\ EventOf(b).requires_faculty_approval
          /\ bookings[b].user_id = StudentId
          /\ bookings[b].status = "confirmed"
          /\ bookings[b].finalizations = 1

(***************************************************************************)
(* C18. Booking admission by event status: a book_event of a requester who *)
(* is no admin on an event that is not approved fails and creates no       *)
(* booking; an admin can book an event that is pending.                    *)
(***************************************************************************)
C18_AdmissionByStatus ==
    [][\A e \in EventIds :
          events[e].status # "approved"
          => \A u \in Bookers :
                (role(u) # "admin" /\ book_event(u, e))
                => /\ bookings' = bookings
                   /\ response' = Resp(400, "event not open for booking", 0)]_vars

\* a refusal while an admin holds a booking of a pending event
C18_Witness ==
    /\ response = Resp(400, "event not open for booking", 0)
    /\ \E b \in BookingIds :
          /\ role(bookings[b].user_id) = "admin"
          /\ EventOf(b).status = "pending"

(***************************************************************************)
(* C19. Event creation is fail-fast: a create_event with a blocked hall,   *)
(* with start >= end, with a hall that does not exist or with an interval  *)
(* that overlaps an approved event of the hall is refused and leaves the   *)
(* events and all other stored state unchanged. Stated contrapositively:   *)
(* a step that changes stored state is no create_event with such input.    *)
(***************************************************************************)
MustRefuse(h, st, et) ==
    \/ h \notin HallIds
    \/ st >= et
    \/ halls[h].status = "blocked"
    \/ OverlapsApproved(h, st, et, 0)

C19_CreateFailFast ==
    /\ [][(events' # events \/ halls' # halls \/ bookings' # bookings)
          => \A h \in HallIds \cup {NoHall}, st \in Hours, et \in Hours :
                MustRefuse(h, st, et)
                => \A u \in Users, c \in 0..MaxCap, r \in BOOLEAN :
                      ~create_event(u, h, c, st, et, r)]_vars
    /\ [][response' = Refused
          => (events' = events /\ halls' = halls /\ bookings' = bookings)]_vars

\* a refused create_event while one hall is blocked and the other is taken
\* by approved events
C19_Witness ==
    /\ response = Refused
    /\ \E h \in HallIds : halls[h].status = "blocked"
    /\ \E x \in EventIds, y \in EventIds :
          /\ x # y
          /\ events[x].status = "approved" /\ events[y].status = "approved"
          /\ events[x].hall_id = events[y].hall_id

(***************************************************************************)
(* C20. Every event that create_event admits is stored with status         *)
(* approved at once, never pending, so that a user who is no admin can     *)
(* book it right after the creation: book_event finds it approved and not  *)
(* sold out.                                                               *)
(***************************************************************************)
C20_CreatedIsApproved ==
    [][Len(events') > Len(events)
       => /\ events'[Len(events')].status = "approved"
          /\ response' = Created(Len(events'))
          /\ (~sold_out(seats_available(Len(events))))']_vars

C20_Witness ==
    /\ response.body = "event_detail"
    /\ response.event_id = Len(events)
    /\ events[response.event_id].status = "approved"
    /\ events[response.event_id].organizer_id = OrganizerId

(***************************************************************************)
(* C21. Event approval: admin_approve_event leaves the status of the event *)
(* as it is when the hall of the event is blocked or when another approved *)
(* event of the hall overlaps it (the event itself does not count), and    *)
(* sets the status to approved otherwise.                                  *)
(***************************************************************************)
C21_EventApproval ==
    [][\A e \in EventIds :
          admin_approve_event(AdminId, e)
          => events'[e].status =
                IF \/ halls[events[e].hall_id].status = "blocked"
                   \/ OverlapsApproved(events[e].hall_id, events[e].start_time,
                                       events[e].end_time, e)
                THEN events[e].status
                ELSE "approved"]_vars

\* the seeded pending event approved in its free hall, while an approved
\* event of the other hall overlaps it in time
C21_Witness ==
    /\ events[2].status = "approved"
    /\ halls[events[2].hall_id].status = "free"
    /\ \E x \in EventIds :
          /\ events[x].status = "approved"
          /\ events[x].hall_id # events[2].hall_id
          /\ events[x].start_time < events[2].end_time
          /\ events[x].end_time > events[2].start_time

(***************************************************************************)
(* C22. Blocked-venue invariant: while a hall is blocked, no step adds an  *)
(* approved event to it: the set of approved events of the hall does not   *)
(* grow in a step taken while the hall is blocked.                         *)
(***************************************************************************)
C22_BlockedHallAdmitsNothing ==
    [][\A h \in HallIds :
          halls[h].status = "blocked"
          => \A x \in DOMAIN events' :
                (events'[x].hall_id = h /\ events'[x].status = "approved")
                => /\ x \in EventIds
                   /\ events[x].hall_id = h
                   /\ events[x].status = "approved"]_vars

\* a refused create_event while every hall is blocked and the pending event
\* is still pending
C22_Witness ==
    /\ response = Refused
    /\ \A h \in HallIds : halls[h].status = "blocked"
    /\ \E e \in EventIds : events[e].status = "pending"

(***************************************************************************)
(* C23. Best-effort finalization: a booking whose two approvals are given  *)
(* becomes confirmed, and stays confirmed until it is cancelled, whatever  *)
(* subset of the QR generation, the PDF generation and the ticket e-mail   *)
(* fails or is unavailable. In its first finalization a failed or          *)
(* unavailable generator leaves its field null, and the e-mail is          *)
(* attempted whenever mail is set up, whatever the generators returned.    *)
(***************************************************************************)
C23_BestEffortFinalization ==
    /\ [](\A b \in BookingIds :
             ( /\ bookings[b].faculty_approved
               /\ bookings[b].organizer_approved
               /\ bookings[b].status # "cancelled" )
             => bookings[b].status = "confirmed")
    /\ [][\A b \in BookingIds :
             /\ bookings[b].status = "confirmed"
                => bookings'[b].status \in {"confirmed", "cancelled"}
             /\ (bookings[b].finalizations = 0 /\ bookings'[b].finalizations = 1)
                => /\ bookings'[b].status = "confirmed"
                   /\ bookings'[b].qr_path \in {NULL, QrHandle}
                   /\ ~qrcode => bookings'[b].qr_path = NULL
                   /\ bookings'[b].pdf_path \in {NULL, PdfHandle}
                   /\ ~have_reportlab => bookings'[b].pdf_path = NULL
                   /\ IF mail
                      THEN /\ Len(outbox') = Len(outbox) + 1
                           /\ outbox'[Len(outbox')].booking_id = b
                      ELSE outbox' = outbox]_vars

\* with both libraries and mail set up: a booking confirmed although its QR
\* code failed, with its PDF generated and its e-mail attempted and failed
C23_Witness ==
    /\ qrcode /\ have_reportlab /\ mail
    /\ \E b \in BookingIds :
          /\ bookings[b].status = "confirmed"
          /\ bookings[b].finalizations = 1
          /\ bookings[b].qr_path = NULL
          /\ bookings[b].pdf_path = PdfHandle
          /\ outbox = <<[booking_id |-> b, delivered |-> FALSE]>>

(***************************************************************************)
(* C25. Cancellation authorization: a cancel_booking by a user who is      *)
(* neither the owner of the booking nor an admin is refused and changes    *)
(* neither the status nor the flags of the booking; this holds for an      *)
(* organizer, also the organizer of the event, and for a faculty member.   *)
(***************************************************************************)
C25_CancelAuthorization ==
    [][\A b \in BookingIds, u \in Users :
          (u # bookings[b].user_id /\ role(u) # "admin" /\ cancel_booking(u, b))
          => /\ bookings' = bookings
             /\ response' = Resp(403, "abort", 0)]_vars

\* a refused cancellation of a student's booking that is not cancelled
C25_Witness ==
    /\ response = Resp(403, "abort", 0)
    /\ \E b \in BookingIds :
          /\ bookings[b].user_id = StudentId
          /\ bookings[b].status # "cancelled"

(***************************************************************************)
(* C26. Role is administrator-controlled: every stored account whose role  *)
(* is faculty, organizer or admin got that role from a request of an       *)
(* admin. (Refuted: register stores the role its form names.)              *)
(***************************************************************************)
C26_RoleSetByAdmin ==
    \A i \in DOMAIN accounts :
        accounts[i].role \in {"faculty", "organizer", "admin"}
        => accounts[i].role_by = "admin"

(***************************************************************************)
(* C24. Finalization ordering: a ticket e-mail is attempted only by a      *)
(* request that has generated the artifacts and committed, in that order:  *)
(* at the step that attempts the e-mail the request's session holds the    *)
(* booking as confirmed with nothing left uncommitted, and a commit of a   *)
(* finalization has reached the stored row.                                *)
(***************************************************************************)
C24_EmailAfterCommit ==
    [][Len(outbox') > Len(outbox)
       => \E r \in RequestIds :
             /\ requests[r].pc = "persisted"
             /\ requests'[r].pc = "done"
             /\ outbox'[Len(outbox')].booking_id = requests[r].booking_id
             /\ requests[r].row.status = "confirmed"
             /\ ~requests[r].dirty
             /\ bookings[requests[r].booking_id].finalizations >= 1]_vars

\* an e-mail was attempted for a booking stored as confirmed with both of
\* the handles its finalization generated
C24_Witness ==
    \E r \in RequestIds :
        /\ requests[r].pc = "done"
        /\ requests[r].booking_id \in BookingIds
        /\ outbox # << >>
        /\ outbox[Len(outbox)].booking_id = requests[r].booking_id
        /\ bookings[requests[r].booking_id].status = "confirmed"
        /\ bookings[requests[r].booking_id].qr_path = QrHandle
        /\ bookings[requests[r].booking_id].pdf_path = PdfHandle

(***************************************************************************)
(* C27. Last-seat race: the insert of book_event does not look at the      *)
(* seats again. A request that passed the sold-out test and the lookup     *)
(* stores its booking at its next step, whatever was committed since, so   *)
(* two requests of different users that both saw the one seat left before  *)
(* either stored anything both store a booking.                            *)
(***************************************************************************)
C27_InsertAfterCheck ==
    [][\A r \in RequestIds :
          (requests[r].pc = "looked" /\ requests'[r] # requests[r])
          => /\ requests'[r].pc = "committed"
             /\ bookings' = Append(bookings,
                               NewBooking(requests[r].user, requests[r].event_id))]_vars

\* two requests of different users for the same event computed avail = 1
\* on the same stored rows, and each stored its booking
C27_Witness ==
    \E r1, r2 \in RequestIds :
        /\ requests[r1].op = "book" /\ requests[r2].op = "book"
        /\ requests[r1].user # requests[r2].user
        /\ requests[r1].event_id = requests[r2].event_id
        /\ requests[r1].avail = 1 /\ requests[r2].avail = 1
        /\ requests[r1].checked_at = requests[r2].checked_at
        /\ requests[r1].checked_at = Len(bookings) - 2
        /\ requests[r1].pc = "done" /\ requests[r1].code = 201
        /\ requests[r2].pc = "done" /\ requests[r2].code = 201
        /\ requests[r1].booking_id # requests[r2].booking_id
        /\ bookings[requests[r1].booking_id].user_id = requests[r1].user
        /\ bookings[requests[r2].booking_id].user_id = requests[r2].user

(***************************************************************************)
(* C29. Exactly-once finalization under concurrent approvals: the body of  *)
(* the finalization runs at most once for a booking and at most one ticket *)
(* e-mail is attempted for it. (Refuted: both approvals can pass the       *)
(* readiness test before either commits the status.)                       *)
(***************************************************************************)
C29_FinalizedOnceConcurrently ==
    \A b \in BookingIds :
        /\ Cardinality({r \in RequestIds :
                          /\ requests[r].booking_id = b
                          /\ requests[r].pc \in {"generated", "persisted"}}) <= 1
        /\ bookings[b].finalizations <= 1
        /\ Cardinality({i \in DOMAIN outbox : outbox[i].booking_id = b}) <= 1

(***************************************************************************)
(* C30. No duplicate booking under concurrency: after two book_event       *)
(* requests of one user for one event have returned, at most one booking   *)
(* of that user for that event is not cancelled. (Refuted: both lookups    *)
(* can run before either insert.)                                          *)
(***************************************************************************)
C30_NoDuplicateConcurrently ==
    \A r1, r2 \in RequestIds :
        ( /\ r1 # r2
          /\ requests[r1].op = "book" /\ requests[r2].op = "book"
          /\ requests[r1].user = requests[r2].user
          /\ requests[r1].event_id = requests[r2].event_id
          /\ requests[r1].pc = "done" /\ requests[r2].pc = "done" )
        => Cardinality(ActiveBookings(requests[r1].user, requests[r1].event_id)) <= 1

(***************************************************************************)
(* C28. Venue double-booking prevention under concurrent requests: the     *)
(* events that two admitted requests (create_event, admin_approve_event)   *)
(* left approved never share a hall with overlapping intervals. (Refuted:  *)
(* both conflict queries can run before either commit.)                    *)
(***************************************************************************)
C28_NoDoubleBookingConcurrently ==
    \A r1, r2 \in RequestIds :
        ( /\ r1 # r2
          /\ requests[r1].admitted /\ requests[r2].admitted
          /\ requests[r1].event_id # requests[r2].event_id
          /\ events[requests[r1].event_id].status = "approved"
          /\ events[requests[r2].event_id].status = "approved" )
        => ~Overlap(requests[r1].event_id, requests[r2].event_id)

(***************************************************************************)
(* C31. No stuck booking: whenever every request started has returned, no  *)
(* booking is pending with both approval flags set. The requests run their *)
(* steps back to back or interleaved (flag and commit, readiness test,     *)
(* commit of the finalization, e-mail).                                    *)
(***************************************************************************)
C31_NoStuckBooking ==
    (\A r \in RequestIds : requests[r].pc = "done")
    => \A b \in BookingIds :
          ~( /\ bookings[b].status = "pending"
             /\ bookings[b].faculty_approved
             /\ bookings[b].organizer_approved )

\* both approvals of one booking have returned after an interleaving in
\* which each found the booking ready, and the booking is confirmed
C31_Witness ==
    /\ Len(requests) = 2
    /\ \A r \in RequestIds : requests[r].pc = "done"
    /\ {requests[r].op : r \in RequestIds} = {"organizer", "faculty"}
    /\ \E b \in BookingIds :
          /\ \A r \in RequestIds : requests[r].booking_id = b
          /\ bookings[b].status = "confirmed"
          /\ bookings[b].faculty_approved /\ bookings[b].organizer_approved
          /\ bookings[b].finalizations = 2

(***************************************************************************)
(* C32. faculty_approve_booking on a booking whose event does not require  *)
(* faculty approval changes nothing: the bookings and the e-mails          *)
(* attempted are as before. Hence faculty_approved of a booking turns true *)
(* only in a step taken while the booking's event requires the approval.   *)
(***************************************************************************)
C32_FacultyApprovalOnlyWhenRequired ==
    [][\A b \in BookingIds :
          /\ (~EventOf(b).requires_faculty_approval
              /\ \E u \in Users : faculty_approve_booking(u, b))
             => (bookings' = bookings /\ outbox' = outbox)
          /\ (~bookings[b].faculty_approved /\ bookings'[b].faculty_approved)
             => EventOf(b).requires_faculty_approval]_vars

\* a booking with the organizer's approval on an event that does not require
\* the faculty's: the approval the faculty could add is refused, the
\* booking stays without it
C32_Witness ==
    \E b \in BookingIds :
        /\ ~EventOf(b).requires_faculty_approval
        /\ bookings[b].event_id \in edited
        /\ bookings[b].organizer_approved
        /\ ~bookings[b].faculty_approved
        /\ bookings[b].status = "pending"
        /\ response = Resp(302, "redirect", 0)

(***************************************************************************)
(* C33. Approval flags are monotone: a flag of a booking that is true      *)
(* stays true in every step (cancellations, edits of the event, repeated   *)
(* approvals, bookings of the same event).                                 *)
(***************************************************************************)
C33_FlagsMonotone ==
    [][\A b \in BookingIds :
          /\ bookings[b].faculty_approved => bookings'[b].faculty_approved
          /\ bookings[b].organizer_approved => bookings'[b].organizer_approved]_vars

\* a cancelled booking that keeps both approvals, beside a later booking of
\* the same user for the same event
C33_Witness ==
    \E b \in BookingIds, c \in BookingIds :
        /\ b < c
        /\ bookings[b].status = "cancelled"
        /\ bookings[b].faculty_approved /\ bookings[b].organizer_approved
        /\ bookings[c].user_id = bookings[b].user_id
        /\ bookings[c].event_id = bookings[b].event_id

(***************************************************************************)
(* C34. Organizer approval authority: a booking gets organizer_approved    *)
(* only from an admin or from the organizer who owns its event. A booking  *)
(* stored with the flag set is a booking made by the admin or by the       *)
(* event's organizer, and the flag of a stored booking turns true only in  *)
(* organizer_approve_booking by one of the two. (Refuted: book_event sets  *)
(* the flag for every requester with role organizer.)                      *)
(***************************************************************************)
C34_OrganizerApprovalAuthority ==
    [][\A b \in DOMAIN bookings' :
          IF b \in BookingIds
          THEN (~bookings[b].organizer_approved /\ bookings'[b].organizer_approved)
               => \E u \in Users :
                     /\ role(u) = "admin" \/ u = EventOf(b).organizer_id
                     /\ organizer_approve_booking(u, b)
          ELSE bookings'[b].organizer_approved
               => \/ role(bookings'[b].user_id) = "admin"
                  \/ bookings'[b].user_id = events[bookings'[b].event_id].organizer_id]_vars

(***************************************************************************)
(* C35. edit_event leaves the hall, the start and end time, the status and *)
(* the organizer of its event as they were, and every other event and the  *)
(* halls untouched; for a requester who is neither the event's organizer   *)
(* nor an admin it changes no event at all. (A step of edit_event is a     *)
(* step of edit_event with the capacity and the flag the event has after   *)
(* it: an edit that is carried out stores what it was given, an edit that  *)
(* is refused is the same step whatever it was given.)                     *)
(***************************************************************************)
C35_EditEventFrame ==
    [][\A e \in EventIds, u \in Users :
          edit_event(u, e, events'[e].capacity, events'[e].requires_faculty_approval)
          => /\ DOMAIN events' = DOMAIN events
             /\ events'[e].hall_id = events[e].hall_id
             /\ events'[e].start_time = events[e].start_time
             /\ events'[e].end_time = events[e].end_time
             /\ events'[e].status = events[e].status
             /\ events'[e].organizer_id = events[e].organizer_id
             /\ \A x \in EventIds \ {e} : events'[x] = events[x]
             /\ (u # events[e].organizer_id /\ role(u) # "admin")
                => (events' = events /\ edited' = edited)]_vars

\* an event the admin created was edited by its owner: the flag is off, and
\* the event is approved in its hall as create_event stored it
C35_Witness ==
    \E e \in edited :
        /\ events[e].organizer_id = AdminId
        /\ ~events[e].requires_faculty_approval
        /\ events[e].capacity = 0
        /\ events[e].status = "approved"
        /\ events[e].start_time < events[e].end_time

(***************************************************************************)
(* C36. Approved events stay approved: an event that is approved is        *)
(* approved after every step (the blocking of its hall included), and no   *)
(* event ever has the status rejected.                                     *)
(***************************************************************************)
C36_ApprovedStaysApproved ==
    /\ [][\A e \in EventIds :
             events[e].status = "approved" => events'[e].status = "approved"]_vars
    /\ [](\A e \in EventIds : events[e].status \in {"pending", "approved"})

\* an approved event in a blocked hall
C36_Witness ==
    \E e \in EventIds :
        /\ events[e].status = "approved"
        /\ halls[events[e].hall_id].status = "blocked"

(***************************************************************************)
(* C37. Every event create_event stores requires faculty approval,         *)
(* whatever requires_faculty value the request carried, and the flag of a  *)
(* stored event turns false only in an edit_event that submits false.      *)
(***************************************************************************)
C37_CreatedRequiresFaculty ==
    [][/\ \A x \in DOMAIN events' \ EventIds : events'[x].requires_faculty_approval
       /\ \A e \in EventIds :
             (events[e].requires_faculty_approval /\ ~events'[e].requires_faculty_approval)
             => \E u \in Users, c \in 0..MaxCap : edit_event(u, e, c, FALSE)]_vars

\* an event stored by create_event, not edited since, beside an event whose
\* flag an edit has turned off
C37_Witness ==
    /\ Len(events) = MaxEvents
    /\ MaxEvents \notin edited
    /\ events[MaxEvents].requires_faculty_approval
    /\ response = Created(MaxEvents)
    /\ 1 \in edited
    /\ ~events[1].requires_faculty_approval

(***************************************************************************)
(* C38. Cancelling frees a seat only for confirmed bookings: on an event   *)
(* with a finite effective capacity C and N <= C confirmed bookings, a     *)
(* cancel_booking that is carried out on a confirmed booking raises        *)
(* seats_available by exactly 1, and on a pending booking leaves it as it  *)
(* was.                                                                    *)
(***************************************************************************)
C38_CancelFreesSeat ==
    [][\A b \in BookingIds :
          ( /\ bookings[b].status # "cancelled"
            /\ bookings'[b].status = "cancelled"
            /\ \E u \in Users : cancel_booking(u, b)
            /\ EffectiveCapacity(bookings[b].event_id) # NoLimit
            /\ ConfirmedUpTo(bookings[b].event_id, Len(bookings))
                  <= EffectiveCapacity(bookings[b].event_id) )
          => LET e == bookings[b].event_id
             IN  /\ bookings[b].status = "confirmed"
                    => seats_available(e)' = seats_available(e) + 1
                 /\ bookings[b].status = "pending"
                    => seats_available(e)' = seats_available(e)]_vars

\* a confirmed booking was cancelled on a sold-out event, which has its one
\* seat available again
C38_Witness ==
    /\ response = Resp(302, "redirect", 0)
    /\ \E b \in BookingIds :
          /\ bookings[b].status = "cancelled"
          /\ bookings[b].finalizations = 1
          /\ EffectiveCapacity(bookings[b].event_id) = 1
          /\ ConfirmedUpTo(bookings[b].event_id, Len(bookings)) = 0
          /\ seats_available(bookings[b].event_id) = 1

====
